---- MODULE Spec2Model ----
(***************************************************************************)
(* The integrated terminal subsystem of markdown_git: TerminalService and  *)
(* TerminalInstance (src/terminalService.js) driven by the host's IPC      *)
(* handlers (main process) and by the events of the node-pty process       *)
(* handles, with the shell discovery of terminalManager.  Every JavaScript *)
(* callback runs to completion, so each callback is one action; the event  *)
(* loop interleaves them freely.                                           *)
(***************************************************************************)
EXTENDS Integers, Sequences, FiniteSets, TLC

\* ------------------------------------------------------------------ bounds
MaxId == 2            \* ids createTerminal may hand out
MaxEvents == 3        \* events over the whole run: a createTerminal call, a
                      \* non-default argument of createTerminal or of a
                      \* restored descriptor, a chunk of output, a write, a
                      \* resize, or a fault of the environment (a failed spawn,
                      \* a throwing kill/write/resize, an 'error' of a process
                      \* handle, a repeated exit report)

\* ------------------------------------------------------- program constants
DefaultCols == 80
DefaultRows == 30

\* JavaScript's null/undefined where a string is expected
NULL == "<null>"

ExitCodes == {0, 1}
ColChoices == {DefaultCols, 120}
RowChoices == {DefaultRows}
WriteOutcomes == {"ok", "broken", "other"}

VARIABLES
    terminals,        \* TerminalService._terminals: the ids registered (Map keys)
    nextTerminalId,   \* TerminalService._nextTerminalId
    instances,        \* every TerminalInstance ever constructed, by id
    pty,              \* the node-pty process handle each instance owns
    immediates,       \* per instance: queued setImmediate(dispose) callbacks
    hostEvents,       \* per id: the terminal-* events the service emitted
    createdIds,       \* ids returned by createTerminal, in call order
    config,           \* TerminalService._config
    threw,            \* the operations that have thrown to their caller
    restored,         \* the snapshots restoreTerminals was called with
    host,             \* the machine: process.platform, the executables
                      \* fs.existsSync finds, process.env
    serviceEvents,    \* the events of the service that name no terminal
    reply,            \* what the last query handler returned
    savedState,       \* terminal-state.json, once saveTerminalState wrote it
    budget            \* events (see MaxEvents) taken so far

vars == <<terminals, nextTerminalId, instances, pty, immediates, hostEvents,
          createdIds, config, threw, restored, host, serviceEvents, reply,
          savedState, budget>>

\* what no step of a terminal touches
hostVars == <<restored, host, serviceEvents, reply, savedState>>

Ids == 1..MaxId

\* ----------------------------------------------------------------- helpers
\* one event on the service's emitter, as its listeners receive it
Ev(type, data) == [type |-> type, data |-> data]

RECURSIVE CountType(_, _)
CountType(log, type) ==
    IF log = <<>> THEN 0
    ELSE (IF Head(log).type = type THEN 1 ELSE 0) + CountType(Tail(log), type)

Known == DOMAIN instances

CountIn(h, id, type) == IF id \in DOMAIN h THEN CountType(h[id], type) ELSE 0
Count(id, type) == CountIn(hostEvents, id, type)

\* an optional event is taken while the budget lasts
Optional(isOptional) ==
    /\ isOptional => budget < MaxEvents
    /\ budget' = IF isOptional THEN budget + 1 ELSE budget

\* n optional events taken by one call
Spend(n) ==
    /\ budget + n <= MaxEvents
    /\ budget' = budget + n

Put(f, id, v) == [i \in (DOMAIN f) \cup {id} |-> IF i = id THEN v ELSE f[i]]

\* a || b on numbers: 0 stands for every falsy value (0, undefined)
OrDefault(v, d) == IF v = 0 THEN d ELSE v

\* { ...a, ...b }
Merge_firstWins(a, b) ==
    [k \in (DOMAIN a) \cup (DOMAIN b) |-> IF k \in DOMAIN a THEN a[k] ELSE b[k]]
Merge(a, b) == [k \in (DOMAIN a) \cup (DOMAIN b) |-> IF k \in DOMAIN b THEN b[k] ELSE a[k]]

\* ----------------------------------------------------------- terminalManager
\* a shell profile object (args is [] in every profile)
Profile(name, displayName, shell) ==
    [name |-> name, displayName |-> displayName, shell |-> shell]

\* null where a profile object is expected
NoProfile == Profile(NULL, NULL, NULL)

\* the profiles of seq whose executable exists
Existing_unprobed(env, seq) == seq
Existing(env, seq) == SelectSeq(seq, LAMBDA s : s.shell \in env.exists)

\* path.basename and the capitalised display name, for the values of $SHELL
basename(p) ==
    CASE p \in {"/bin/bash", "/usr/bin/bash"} -> "bash"
      [] p = "/bin/zsh" -> "zsh"
      [] p = "/bin/sh" -> "sh"
      [] p = "/usr/bin/fish" -> "fish"
      [] OTHER -> p

capitalize(name) ==
    CASE name = "bash" -> "Bash"
      [] name = "zsh" -> "Zsh"
      [] name = "sh" -> "Sh"
      [] name = "fish" -> "Fish"
      [] OTHER -> name

CmdPath == "C:\\Windows\\System32\\cmd.exe"
PowerShellPath == "C:\\Windows\\System32\\WindowsPowerShell\\v1.0\\powershell.exe"
WslPath == "C:\\Windows\\System32\\wsl.exe"

getDefaultShell(env) ==
    IF env.platform = "win32" THEN CmdPath
    ELSE IF env.platform = "darwin"
         THEN (IF "/bin/zsh" \in env.exists THEN "/bin/zsh" ELSE "/bin/bash")
    ELSE IF env.platform = "linux"
         THEN (IF env.SHELL # NULL /\ env.SHELL \in env.exists THEN env.SHELL ELSE "/bin/bash")
    ELSE (IF env.SHELL # NULL THEN env.SHELL ELSE "/bin/bash")

detectPowerShell7(env) ==
    LET ps7Paths ==
            <<"C:\\Program Files\\PowerShell\\7\\pwsh.exe",
              "C:\\Program Files\\PowerShell\\7.0\\pwsh.exe",
              "C:\\Program Files (x86)\\PowerShell\\7\\pwsh.exe",
              "C:\\Program Files (x86)\\PowerShell\\7.0\\pwsh.exe">>
            \o (IF env.LOCALAPPDATA
                THEN <<"%LOCALAPPDATA%\\Programs\\PowerShell\\7\\pwsh.exe">>
                ELSE <<>>)
        found == SelectSeq(ps7Paths, LAMBDA p : p \in env.exists)
    IN  IF found = <<>> THEN NULL ELSE Head(found)

detectWindowsShells(env) ==
    LET ps7Path == detectPowerShell7(env)
        gitBashPaths ==
            <<"C:\\Program Files\\Git\\bin\\bash.exe",
              "C:\\Program Files (x86)\\Git\\bin\\bash.exe">>
            \o (IF env.LOCALAPPDATA
                THEN <<"%LOCALAPPDATA%\\Programs\\Git\\bin\\bash.exe">>
                ELSE <<>>)
        gitBash == SelectSeq(gitBashPaths, LAMBDA p : p \in env.exists)
    IN  Existing(env, <<Profile("cmd", "Command Prompt", CmdPath)>>)
        \o (IF ps7Path # NULL THEN <<Profile("powershell", "PowerShell", ps7Path)>> ELSE <<>>)
        \o Existing(env, <<Profile("powershell-legacy", "PowerShell (Legacy)", PowerShellPath),
                           Profile("wsl", "WSL", WslPath)>>)
        \o (IF gitBash # <<>> THEN <<Profile("git-bash", "Git Bash", Head(gitBash))>> ELSE <<>>)

getAvailableShells(env) ==
    IF env.platform = "win32" THEN detectWindowsShells(env)
    ELSE IF env.platform = "darwin"
         THEN Existing(env, <<Profile("zsh", "Zsh", "/bin/zsh"),
                              Profile("bash", "Bash", "/bin/bash")>>)
    ELSE IF env.platform = "linux"
         THEN LET shells == Existing(env, <<Profile("bash", "Bash", "/bin/bash"),
                                            Profile("zsh", "Zsh", "/bin/zsh"),
                                            Profile("sh", "Sh", "/bin/sh")>>)
                  shellEnv == env.SHELL
                  alreadyAdded == \E i \in 1..Len(shells) : shells[i].shell = shellEnv
              IN  IF shellEnv # NULL /\ shellEnv \in env.exists /\ ~alreadyAdded
                  THEN Append(shells, Profile(basename(shellEnv),
                                              capitalize(basename(shellEnv)), shellEnv))
                  ELSE shells
    ELSE <<>>

\* availableShells.find(s => s.name === profileName), as a sequence of 0 or 1
findByName(shells, profileName) ==
    LET found == SelectSeq(shells, LAMBDA s : s.name = profileName)
    IN  IF found = <<>> THEN <<>> ELSE <<Head(found)>>

getShellByProfile(env, profileName) ==
    LET found == findByName(getAvailableShells(env), profileName)
    IN  IF found = <<>> THEN NoProfile ELSE Head(found)

getDefaultShellProfile(env) ==
    LET defaultShell == getDefaultShell(env)
        availableShells == getAvailableShells(env)
        matching == SelectSeq(availableShells, LAMBDA s : s.shell = defaultShell)
        cmd == findByName(availableShells, "cmd")
    IN  IF matching # <<>> THEN Head(matching)
        ELSE IF cmd # <<>> THEN Head(cmd)
        ELSE IF availableShells # <<>> THEN Head(availableShells)
        ELSE Profile("shell", "Shell", defaultShell)

\* spawnShell: the executable it hands to pty.spawn
shellToSpawn(env, shellProfile) ==
    LET selected == IF shellProfile # NULL
                    THEN findByName(getAvailableShells(env), shellProfile)
                    ELSE <<>>
    IN  IF selected # <<>> THEN Head(selected).shell ELSE getDefaultShell(env)

\* the machine the host runs on: process.platform, the shells fs.existsSync
\* finds, process.env
HostEnv ==
    [platform     |-> "linux",
     exists       |-> {"/bin/bash", "/bin/sh"},
     SHELL        |-> "/bin/bash",
     LOCALAPPDATA |-> FALSE]

\* a Windows machine with cmd.exe and Windows PowerShell
WindowsEnv ==
    [platform     |-> "win32",
     exists       |-> {CmdPath, PowerShellPath},
     SHELL        |-> NULL,
     LOCALAPPDATA |-> FALSE]

\* the machines the host is run on
HostEnvs == {HostEnv, WindowsEnv}

\* the machines shell discovery may meet: each platform it distinguishes
\* and one it does not, with any of the executables it probes present or
\* missing, and $SHELL unset or naming one of five shells
Machine(platform, exists, shellEnv) ==
    [platform |-> platform, exists |-> exists, SHELL |-> shellEnv, LOCALAPPDATA |-> FALSE]

AllEnvs ==
    {Machine("linux", e, sh) :
        e \in SUBSET {"/bin/bash", "/bin/zsh", "/bin/sh", "/usr/bin/fish", "/usr/bin/bash"},
        sh \in {NULL, "/bin/bash", "/bin/zsh", "/usr/bin/fish", "/usr/bin/bash"}}
    \cup {Machine("darwin", e, NULL) : e \in SUBSET {"/bin/zsh", "/bin/bash"}}
    \cup {Machine("win32", e, NULL) :
             e \in SUBSET {CmdPath, "C:\\Program Files\\PowerShell\\7\\pwsh.exe",
                           PowerShellPath, WslPath,
                           "C:\\Program Files\\Git\\bin\\bash.exe"}}
    \cup {Machine("freebsd", {"/bin/sh"}, sh) : sh \in {NULL, "/bin/sh"}}

\* the profile names the renderer may ask for on a machine: none, the
\* discovered ones, and one that is not discovered
ProfileNamesOn(env) ==
    {NULL, "nosuch"} \cup
    {getAvailableShells(env)[i].name : i \in 1..Len(getAvailableShells(env))}

\* what the renderer types into a terminal, and a change-directory line
Line(command, path) == [command |-> command, path |-> path]
Keystrokes == Line("<input>", NULL)

\* the folder the window is switched to, as the machine writes its path
TargetPathOn(env) == IF env.platform = "win32" THEN "C:\\proj\\docs" ELSE "/proj/docs"

\* targetPath.replace(/\\/g, '/')
toForwardSlashes(p) ==
    CASE p = "C:\\proj\\docs" -> "C:/proj/docs"
      [] OTHER -> p

\* shellName.toLowerCase().includes(...), on the display names of the
\* profiles and the 'Shell' of an instance without profile
includesCmd(name) == name \in {"Command Prompt"}
includesPowershell(name) == name \in {"PowerShell", "PowerShell (Legacy)"}

\* changeAllTerminalsDirectory: the line chosen for one terminal
cdCommand(platform, name, targetPath) ==
    IF platform = "win32"
    THEN IF includesCmd(name) THEN Line("cd /d", targetPath)
         ELSE IF includesPowershell(name) THEN Line("cd", targetPath)
         ELSE Line("cd", toForwardSlashes(targetPath))
    ELSE Line("cd", targetPath)

\* process.cwd() and os.homedir() of the host
ProcessCwd == "/app"
HomeDir == "/home/user"

\* the arguments createTerminal is called with
ProfileNames == {NULL, "sh", "nosuch"}
Cwds == {NULL, "/work"}
ColOptions == {0} \cup ColChoices
RowOptions == {0} \cup RowChoices
NoOptions == [cols |-> 0, rows |-> 0]

\* --------------------------------------------------------- TerminalInstance
\* constructor: the fields of lines 15-22; disposables holds the three
\* subscriptions _setupPtyListeners makes on the process handle; errors
\* counts the 'error' events the instance emitted to a listener, and
\* returnedEarly the write/resize calls that returned at their guard
NewInstance ==
    [isDisposed    |-> FALSE,
     hasPty        |-> TRUE,
     shellProfile  |-> NoProfile,
     cwd           |-> NULL,
     cols          |-> DefaultCols,
     rows          |-> DefaultRows,
     disposables   |-> {"onData", "onExit", "error"},
     handlers      |-> FALSE,
     listeners     |-> {},
     timersArmed   |-> 0,
     timersFired   |-> 0,
     errors        |-> 0,
     returnedEarly |-> 0]

\* the process handle terminalManager.spawnShell returns, with what the
\* process was sent (written counts the writes, input holds them);
\* exitCode holds the code the onExit listener was handed with the first
\* exit report, if it was attached then; exitSeenActive records that the
\* exit was reported before disposal of the owning instance began;
\* failed/broken count the write/resize calls on the handle that threw
NewPty ==
    [state          |-> "running",
     shell          |-> NULL,
     profileArg     |-> NULL,
     cwd            |-> NULL,
     cols           |-> DefaultCols,
     rows           |-> DefaultRows,
     exitReports    |-> 0,
     exitCode       |-> <<>>,
     exitSeenActive |-> FALSE,
     produced       |-> 0,
     written        |-> 0,
     input          |-> <<>>,
     failed         |-> 0,
     broken         |-> 0,
     sigterm        |-> 0,
     sigkill        |-> 0]

\* terminalManager.spawnShell(shellProfile, cwd, options): the handle of the
\* process pty.spawn started
spawnShell(env, shellProfile, cwd, options) ==
    [NewPty EXCEPT !.shell = shellToSpawn(env, shellProfile),
                   !.profileArg = shellProfile,
                   !.cwd = cwd,
                   !.cols = OrDefault(options.cols, DefaultCols),
                   !.rows = OrDefault(options.rows, DefaultRows)]

\* the guards of the three listeners on the process handle
onDataListener(t) == "onData" \in t.disposables /\ ~t.isDisposed
onExitListener(t) == "onExit" \in t.disposables /\ ~t.isDisposed
ptyErrorListener(t) == "error" \in t.disposables /\ ~t.isDisposed

\* the onExit listener queues the disposal of its instance:
\* setImmediate(() => this.dispose())
exitSchedulesDispose_never(heard) == FALSE
exitSchedulesDispose(heard) == heard

\* the shellName getter
shellName(t) == IF t.shellProfile # NoProfile THEN t.shellProfile.displayName ELSE "Shell"

\* getState(): the persisted form of one instance
getState(id, t) ==
    [id           |-> id,
     shellProfile |-> t.shellProfile.name,
     cwd          |-> t.cwd,
     cols         |-> t.cols,
     rows         |-> t.rows]

\* write()/resize(): the early return
writeIsNoop_withoutPty(t) == ~t.hasPty
writeIsNoop(t) == t.isDisposed \/ ~t.hasPty

\* write()/resize(): the catch block schedules a self-dispose
schedulesSelfDispose_never(outcome) == FALSE
schedulesSelfDispose(outcome) == outcome = "broken"

\* write()/resize(): the underlying call on the handle; a call that throws
\* leaves the process as it was
ptyAfterWrite(p, data, outcome) ==
    IF outcome = "ok" THEN [p EXCEPT !.written = @ + 1, !.input = Append(@, data)]
    ELSE [p EXCEPT !.failed = @ + 1,
                   !.broken = @ + (IF outcome = "broken" THEN 1 ELSE 0)]

ptyAfterResize(p, cols, rows, outcome) ==
    IF outcome = "ok" THEN [p EXCEPT !.cols = cols, !.rows = rows]
    ELSE [p EXCEPT !.failed = @ + 1,
                   !.broken = @ + (IF outcome = "broken" THEN 1 ELSE 0)]

\* dispose(): the idempotence guard
disposeIsNoop_never(t) == FALSE
disposeIsNoop(t) == t.isDisposed

\* dispose(): Step 1, the service's forwarders leave the instance
detachHandlers_skip(t) == t
detachHandlers(t) ==
    IF t.handlers THEN [t EXCEPT !.handlers = FALSE, !.listeners = {}] ELSE t

\* dispose(): the calls it makes that can throw
DisposeFailures ==
    {"removeListener", "SIGTERM", "SIGKILL", "disposable.dispose", "pty.removeAllListeners"}

\* dispose(): each of those calls stands inside a try block whose catch logs
inTryBlock_none(call) == FALSE
inTryBlock(call) == call \in DisposeFailures

\* a failing call whose exception leaves dispose()
escapes(call, failing) == call \in failing /\ ~inTryBlock(call)

\* dispose() where the calls in failing throw: the instance after the call and
\* whether the call threw. Step 1 clears _handlers after its catch; Step 2
\* sends SIGKILL in the catch of SIGTERM; Step 3 empties _disposables after
\* the forEach; Step 5 is removeAllListeners() of the instance itself
disposeWith(t, failing) ==
    IF disposeIsNoop(t) THEN [instance |-> t, threw |-> FALSE]
    ELSE LET t1 == [t EXCEPT !.isDisposed = TRUE]
             t2 == IF t1.handlers /\ "removeListener" \in failing
                   THEN [t1 EXCEPT !.handlers = FALSE]
                   ELSE detachHandlers(t1)
             t3 == IF t2.hasPty THEN [t2 EXCEPT !.timersArmed = @ + 1] ELSE t2
             t4 == [t3 EXCEPT !.disposables = {}]
             t5 == [t4 EXCEPT !.listeners = {}]
         IN  IF t1.handlers /\ escapes("removeListener", failing)
             THEN [instance |-> t1, threw |-> TRUE]
             ELSE IF t2.hasPty /\ (\/ escapes("SIGTERM", failing)
                                   \/ "SIGTERM" \in failing /\ escapes("SIGKILL", failing))
             THEN [instance |-> t3, threw |-> TRUE]
             ELSE IF t3.disposables # {} /\ escapes("disposable.dispose", failing)
             THEN [instance |-> t3, threw |-> TRUE]
             ELSE IF t4.hasPty /\ escapes("pty.removeAllListeners", failing)
             THEN [instance |-> t4, threw |-> TRUE]
             ELSE [instance |-> t5, threw |-> FALSE]

\* dispose(): the instance after the call
disposeInstance(t) == disposeWith(t, {}).instance

\* dispose(): the signals Step 2 sends; termThrows: kill('SIGTERM') threw
disposePty(t, p, termThrows) ==
    IF disposeIsNoop(t) \/ ~t.hasPty THEN p
    ELSE [p EXCEPT !.sigterm = @ + 1,
                   !.sigkill = @ + (IF termThrows THEN 1 ELSE 0)]

\* ---------------------------------------------------------- TerminalService
\* the three forwarders createTerminal attaches: the service's log after the call
dataHandler_noGuard(reg, id, log, data) ==
    Append(log, Ev("terminal-data", data))
dataHandler_newestFirst(reg, id, log, data) ==
    IF id \in reg THEN <<Ev("terminal-data", data)>> \o log ELSE log
dataHandler(reg, id, log, data) ==
    IF id \in reg THEN Append(log, Ev("terminal-data", data)) ELSE log

exitHandler_noGuard(reg, id, log, exitCode) ==
    Append(log, Ev("terminal-exit", <<exitCode>>))
exitHandler_deleteFirst(reg, id, log, exitCode) ==
    IF id \in reg \ {id} THEN Append(log, Ev("terminal-exit", <<exitCode>>)) ELSE log
exitHandler(reg, id, log, exitCode) ==
    IF id \in reg THEN Append(log, Ev("terminal-exit", <<exitCode>>)) ELSE log

errorHandler(reg, id, log) ==
    IF id \in reg THEN Append(log, Ev("terminal-error", <<>>)) ELSE log

\* terminal.on('data' / 'exit' / 'error', ...): the events of the instance
\* the service listens to
forwardedEvents_noError == {"data", "exit"}
forwardedEvents == {"data", "exit", "error"}

\* this._nextTerminalId++ : the counter after the call
postIncrement_lost(n) == n
postIncrement(n) == n + 1

\* this._terminals.delete(terminalId) in closeTerminal
registryAfterClose_keep(reg, id) == reg
registryAfterClose(reg, id) == reg \ {id}

\* this._terminals.set(terminalId, terminal) in createTerminal, which comes
\* before the forwarders are attached and 'terminal-created' is emitted
registryAfterCreate_unset(reg, id) == reg
registryAfterCreate(reg, id) == reg \cup {id}

\* createTerminal: this._terminals when spawnShell threw (the Map is set
\* only after the spawn)
registryAfterFailedSpawn_set(reg, id) == reg \cup {id}
registryAfterFailedSpawn(reg, id) == reg

\* _loadConfig()
DefaultConfig ==
    [defaultProfile |-> NULL,
     fontFamily     |-> "Consolas, \"Courier New\", monospace",
     fontSize       |-> 14,
     cursorBlink    |-> TRUE,
     scrollback     |-> 1000,
     theme          |-> [background |-> "#1e1e1e", foreground |-> "#d4d4d4"]]

\* the state of the service and of the objects it created, as one record
Service ==
    [terminals      |-> terminals,
     nextTerminalId |-> nextTerminalId,
     instances      |-> instances,
     pty            |-> pty,
     immediates     |-> immediates,
     hostEvents     |-> hostEvents,
     createdIds     |-> createdIds,
     config         |-> config,
     threw          |-> threw]

\* the service as its constructor leaves it
NewService ==
    [terminals      |-> {},
     nextTerminalId |-> 1,
     instances      |-> [i \in {} |-> NewInstance],
     pty            |-> [i \in {} |-> NewPty],
     immediates     |-> [i \in {} |-> 0],
     hostEvents     |-> [i \in {} |-> <<>>],
     createdIds     |-> <<>>,
     config         |-> DefaultConfig,
     threw          |-> {}]

\* the service after a call that left it as s
SetService(s) ==
    /\ terminals' = s.terminals
    /\ nextTerminalId' = s.nextTerminalId
    /\ instances' = s.instances
    /\ pty' = s.pty
    /\ immediates' = s.immediates
    /\ hostEvents' = s.hostEvents
    /\ createdIds' = s.createdIds
    /\ config' = s.config
    /\ threw' = s.threw

\* write()/resize(): the catch block after the underlying call threw
\* (outcome # "ok"): the self-dispose it queues and this.emit('error'),
\* which throws when nobody listens; op names the method
catchBlock(s, id, outcome, op) ==
    LET t == s.instances[id]
        isFailure == outcome # "ok"
    IN  [s EXCEPT
            !.immediates[id] = IF isFailure /\ schedulesSelfDispose(outcome) THEN @ + 1 ELSE @,
            !.hostEvents[id] = IF isFailure /\ "error" \in t.listeners
                               THEN errorHandler(s.terminals, id, @)
                               ELSE @,
            !.threw = IF isFailure /\ "error" \notin t.listeners THEN @ \cup {op} ELSE @]

\* the 'error' events the instance has emitted to a listener, after the call
errorsAfter(t, outcome) ==
    IF outcome # "ok" /\ "error" \in t.listeners THEN t.errors + 1 ELSE t.errors

\* TerminalInstance.write(data) on the instance id of s; outcome: what the
\* underlying pty.write did
writeIn(s, id, data, outcome) ==
    IF writeIsNoop(s.instances[id])
    THEN [s EXCEPT !.instances[id].returnedEarly = @ + 1]
    ELSE catchBlock([s EXCEPT
                        !.pty[id] = ptyAfterWrite(@, data, outcome),
                        !.instances[id].errors = errorsAfter(s.instances[id], outcome)],
                    id, outcome, "write")

\* TerminalInstance.resize(cols, rows); the fields are assigned before the
\* underlying pty.resize is called
resizeIn(s, id, cols, rows, outcome) ==
    IF writeIsNoop(s.instances[id])
    THEN [s EXCEPT !.instances[id].returnedEarly = @ + 1]
    ELSE catchBlock([s EXCEPT
                        !.pty[id] = ptyAfterResize(@, cols, rows, outcome),
                        !.instances[id].cols = cols,
                        !.instances[id].rows = rows,
                        !.instances[id].errors = errorsAfter(s.instances[id], outcome)],
                    id, outcome, "resize")

\* getTerminal(terminalId): this._terminals.get, as a sequence of 0 or 1
getTerminal_everCreated(s, terminalId) ==
    IF terminalId \in DOMAIN s.instances THEN <<s.instances[terminalId]>> ELSE <<>>
getTerminal(s, terminalId) ==
    IF terminalId \in s.terminals THEN <<s.instances[terminalId]>> ELSE <<>>

\* the test of the 'pty:write' and 'pty:resize' handlers:
\* terminal && !terminal.isDisposed
reachesInstance(s, terminalId) ==
    /\ getTerminal(s, terminalId) # <<>>
    /\ ~getTerminal(s, terminalId)[1].isDisposed

\* the 'pty:write' handler: getTerminal, the test, terminal.write(data)
ptyWriteIn(s, terminalId, data, outcome) ==
    IF reachesInstance(s, terminalId) THEN writeIn(s, terminalId, data, outcome) ELSE s

\* the 'pty:resize' handler: getTerminal, the test, terminal.resize(cols, rows)
ptyResizeIn(s, terminalId, cols, rows, outcome) ==
    IF reachesInstance(s, terminalId)
    THEN resizeIn(s, terminalId, cols, rows, outcome)
    ELSE s

\* closeTerminal: what it returns
closeTerminalResult_true(found) == TRUE
closeTerminalResult(found) == found

\* closeTerminal(terminalId) on the service s: the service after the call
\* and the value returned; termThrows: kill('SIGTERM') threw inside dispose
closeTerminalIn(s, terminalId, termThrows) ==
    LET terminal == getTerminal(s, terminalId)
    IN  IF terminal # <<>>
        THEN [service |-> [s EXCEPT
                  !.instances[terminalId] = disposeInstance(@),
                  !.pty[terminalId] = disposePty(s.instances[terminalId], @, termThrows),
                  !.terminals = registryAfterClose(@, terminalId),
                  !.hostEvents[terminalId] = Append(@, Ev("terminal-closed", <<>>))],
              result |-> closeTerminalResult(TRUE)]
        ELSE [service |-> s, result |-> closeTerminalResult(FALSE)]

\* createTerminal(profileName, cwd, options) on the service s; spawnOk:
\* whether terminalManager.spawnShell returned a handle or threw
createTerminalIn(s, profileName, cwd, options, spawnOk) ==
    LET terminalId == s.nextTerminalId
        workingDir == IF cwd # NULL THEN cwd ELSE ProcessCwd
        shellProfile == IF profileName # NULL
                        THEN getShellByProfile(host, profileName)
                        ELSE getDefaultShellProfile(host)
        ptyProcess == spawnShell(host, profileName, workingDir,
                                 [cols |-> OrDefault(options.cols, DefaultCols),
                                  rows |-> OrDefault(options.rows, DefaultRows)])
        terminal == [NewInstance EXCEPT !.shellProfile = shellProfile,
                                        !.cwd = workingDir,
                                        !.handlers = TRUE,
                                        !.listeners = forwardedEvents]
        s1 == [s EXCEPT !.nextTerminalId = postIncrement(@)]
    IN  IF spawnOk
        THEN [s1 EXCEPT
                !.instances = Put(@, terminalId, terminal),
                !.pty = Put(@, terminalId, ptyProcess),
                !.immediates = Put(@, terminalId, 0),
                !.terminals = registryAfterCreate(@, terminalId),
                !.hostEvents = Put(@, terminalId,
                    <<Ev("terminal-created", <<shellName(terminal), workingDir>>)>>),
                !.createdIds = Append(@, terminalId)]
        ELSE [s1 EXCEPT
                !.terminals = registryAfterFailedSpawn(@, terminalId),
                !.threw = @ \cup {"createTerminal"}]

\* getTerminalState(): the Map is walked in insertion order
getTerminalState(s) ==
    LET order == SelectSeq(s.createdIds, LAMBDA id : id \in s.terminals)
    IN  [terminals |-> [i \in 1..Len(order) |-> getState(order[i], s.instances[order[i]])],
         config    |-> s.config]

\* changeAllTerminalsDirectory: terminals.forEach(term => ...) over the
\* instances in terminalIds; failing: the id whose pty.write does outcome. A
\* write that throws ends the forEach in the catch of the function
RECURSIVE changeEach(_, _, _, _, _)
changeEach(s, terminalIds, targetPath, failing, outcome) ==
    IF terminalIds = <<>> THEN s
    ELSE LET id == Head(terminalIds)
             term == s.instances[id]
             cmd == cdCommand(host.platform, shellName(term), targetPath)
             s1 == IF ~term.isDisposed
                   THEN writeIn(s, id, cmd, IF id = failing THEN outcome ELSE "ok")
                   ELSE s
         IN  IF s1.threw # s.threw THEN s1
             ELSE changeEach(s1, Tail(terminalIds), targetPath, failing, outcome)

\* the ids in the registry, in the order the Map iterates them
registryOrder(s) == SelectSeq(s.createdIds, LAMBDA id : id \in s.terminals)

\* closeTerminal: the try/catch around terminal.dispose() keeps a failing
\* dispose from ending the forEach of closeAllTerminals
afterFailedDispose_abort(rest) == <<>>
afterFailedDispose(rest) == rest

\* closeAllTerminals: terminalIds.forEach(id => this.closeTerminal(id));
\* throwing: the ids whose kill('SIGTERM') throws
RECURSIVE closeEach(_, _, _)
closeEach(s, terminalIds, throwing) ==
    IF terminalIds = <<>> THEN s
    ELSE LET id == Head(terminalIds)
         IN  closeEach(closeTerminalIn(s, id, id \in throwing).service,
                       IF id \in throwing
                       THEN afterFailedDispose(Tail(terminalIds))
                       ELSE Tail(terminalIds),
                       throwing)

closeAllTerminalsIn(s, throwing) == closeEach(s, registryOrder(s), throwing)

\* TerminalService.dispose(): closeAllTerminals(), then removeAllListeners()
\* (hostEvents records what the service emits, listened to or not)
disposeServiceIn(s, throwing) == closeAllTerminalsIn(s, throwing)

changeAllTerminalsDirectoryIn(s, targetPath, failing, outcome) ==
    changeEach(s, registryOrder(s), targetPath, failing, outcome)

\* one entry of a snapshot's terminals array, with what becomes of it:
\* "ok", "unspawnable" (spawnShell throws) or "malformed" (the entry is null,
\* so reading its shellProfile throws)
Descriptor(kind, shellProfile, cwd, cols, rows) ==
    [kind |-> kind, shellProfile |-> shellProfile, cwd |-> cwd, cols |-> cols, rows |-> rows]

MalformedEntry == Descriptor("malformed", NULL, ProcessCwd, DefaultCols, DefaultRows)

\* restoreTerminals: the try/catch is inside the loop body, so the entries
\* after a failing one are still visited
afterFailedEntry_abort(rest) == <<>>
afterFailedEntry(rest) == rest

\* restoreTerminals: state.terminals.forEach(...)
RECURSIVE restoreEach(_, _)
restoreEach(s, entries) ==
    IF entries = <<>> THEN s
    ELSE LET d == Head(entries)
             s1 == IF d.kind = "malformed" THEN s
                   ELSE createTerminalIn(s, d.shellProfile, d.cwd,
                                         [cols |-> d.cols, rows |-> d.rows],
                                         d.kind = "ok")
         IN  restoreEach(s1, IF d.kind = "ok" THEN Tail(entries)
                             ELSE afterFailedEntry(Tail(entries)))

\* restoreTerminals(state); usable: state && state.terminals
restoreTerminalsIn(s, state) ==
    IF ~state.usable THEN s
    ELSE restoreEach([s EXCEPT !.config = Merge(@, state.config)], state.terminals)

\* ---- the inputs of createTerminal and restoreTerminals, with their cost in
\* ---- events: one for the call, one more for each argument that is not the
\* ---- default and for a failing spawn
DefaultProfileName == getDefaultShellProfile(host).name

createCost(profileName, cwd, cols, spawnOk) ==
      1
    + (IF profileName \in {NULL, DefaultProfileName} THEN 0 ELSE 1)
    + (IF cwd \in {NULL, ProcessCwd} THEN 0 ELSE 1)
    + (IF cols \in {0, DefaultCols} THEN 0 ELSE 1)
    + (IF spawnOk THEN 0 ELSE 1)

entryCost(d) ==
    IF d.kind = "malformed" THEN 1
    ELSE createCost(d.shellProfile, d.cwd, d.cols, d.kind = "ok")

RECURSIVE entriesCost(_)
entriesCost(entries) ==
    IF entries = <<>> THEN 0 ELSE entryCost(Head(entries)) + entriesCost(Tail(entries))

NoPatch == [k \in {} |-> 0]
ConfigPatches == {NoPatch, [fontSize |-> 16]}

\* the updates the renderer may send to 'terminal:update-config': nothing, a
\* changed value, a nested object, a key the configuration does not have
ConfigUpdates ==
    ConfigPatches \cup {[theme |-> [background |-> "#000000"]], [cols |-> 120]}

\* updateConfig: this._config = { ...this._config, ...updates }
updateConfigIn(cfg, updates) == Merge(cfg, updates)

snapshotCost(state) ==
    entriesCost(state.terminals) + (IF state.config = NoPatch THEN 0 ELSE 1)

\* the entries that cost at most n
Entries(n) ==
    {d \in {MalformedEntry} \cup
           {Descriptor(k, pr, cwd, c, r) :
               k \in {"ok", "unspawnable"},
               pr \in ProfileNames \cup {DefaultProfileName},
               cwd \in {ProcessCwd, "/work"},
               c \in ColChoices, r \in RowChoices} :
        entryCost(d) <= n}

\* the snapshots of at most len entries that cost at most n, and one value
\* restoreTerminals rejects
Snapshots(n, len) ==
    {[usable |-> FALSE, terminals |-> <<>>, config |-> NoPatch]} \cup
    {st \in [usable : {TRUE},
             terminals : UNION {[1..k -> Entries(n)] : k \in 0..len},
             config : ConfigPatches] :
        snapshotCost(st) <= n}

Init ==
    /\ terminals = {}
    /\ nextTerminalId = 1
    /\ instances = [i \in {} |-> NewInstance]
    /\ pty = [i \in {} |-> NewPty]
    /\ immediates = [i \in {} |-> 0]
    /\ hostEvents = [i \in {} |-> <<>>]
    /\ createdIds = <<>>
    /\ config = DefaultConfig
    /\ threw = {}
    /\ restored = <<>>
    /\ host = HostEnv
    /\ serviceEvents = <<>>
    /\ reply = <<>>
    /\ savedState = <<>>
    /\ budget = 0

\* createTerminal(profileName, cwd, options); spawnOk: whether
\* terminalManager.spawnShell returned a handle or threw
createTerminal(profileName, cwd, options, spawnOk) ==
    /\ nextTerminalId <= MaxId
    /\ Spend(createCost(profileName, cwd, options.cols, spawnOk))
    /\ SetService(createTerminalIn(Service, profileName, cwd, options, spawnOk))
    /\ UNCHANGED hostVars

\* the 'terminal:create' handler: the cwd it settles on (the one given, else
\* the folder open in the window, else the home directory), then
\* createTerminal(profileName, targetCwd) without options
terminalCreate(profileName, cwd, spawnOk) ==
    /\ nextTerminalId <= MaxId
    /\ Spend(createCost(profileName, cwd, 0, spawnOk))
    /\ LET targetCwd == IF cwd # NULL THEN cwd ELSE HomeDir
       IN  SetService(createTerminalIn(Service, profileName, targetCwd, NoOptions, spawnOk))
    /\ UNCHANGED hostVars

\* restoreTerminals(state), called once, with a snapshot the ids left can hold
restoreTerminals(state) ==
    /\ restored = <<>>
    /\ Len(state.terminals) <= MaxId + 1 - nextTerminalId
    /\ Spend(snapshotCost(state))
    /\ SetService(restoreTerminalsIn(Service, state))
    /\ restored' = <<state>>
    /\ UNCHANGED <<host, serviceEvents, reply, savedState>>

\* closeTerminal(terminalId), for any id the host may name
closeTerminal(id, termThrows) ==
    /\ Optional(termThrows)
    /\ termThrows => id \in terminals /\ ~disposeIsNoop(instances[id])
    /\ SetService(closeTerminalIn(Service, id, termThrows).service)
    /\ UNCHANGED hostVars

\* the process handle delivers one chunk of output
onData(id) ==
    /\ id \in Known
    /\ Optional(TRUE)
    /\ LET t == instances[id]
           n == pty[id].produced + 1
       IN  /\ pty' = [pty EXCEPT ![id].produced = n]
           /\ hostEvents' =
                IF onDataListener(t) /\ "data" \in t.listeners
                THEN [hostEvents EXCEPT ![id] = dataHandler(terminals, id, @, <<id, n>>)]
                ELSE hostEvents
    /\ UNCHANGED <<terminals, nextTerminalId, instances, immediates, createdIds,
                   config, threw, hostVars>>

\* the process handle reports the exit of its process: the first report of a
\* running process, or a repeated report to a listener that is still attached
onExit(id, code) ==
    /\ id \in Known
    /\ LET t == instances[id]
           p == pty[id]
           heard == onExitListener(t)
           forwarded == heard /\ "exit" \in t.listeners
       IN  /\ p.state = "exited" => "onExit" \in t.disposables
           /\ Optional(p.state = "exited")
           /\ pty' = [pty EXCEPT ![id] =
                        [p EXCEPT !.state = "exited",
                                  !.exitReports = @ + 1,
                                  !.exitCode = IF p.state = "running" /\ heard
                                               THEN <<code>> ELSE @,
                                  !.exitSeenActive =
                                      IF p.state = "running" THEN ~t.isDisposed ELSE @]]
           /\ hostEvents' =
                IF forwarded
                THEN [hostEvents EXCEPT ![id] = exitHandler(terminals, id, @, code)]
                ELSE hostEvents
           /\ terminals' = IF forwarded THEN terminals \ {id} ELSE terminals
           /\ immediates' = IF exitSchedulesDispose(heard)
                            THEN [immediates EXCEPT ![id] = @ + 1]
                            ELSE immediates
    /\ UNCHANGED <<nextTerminalId, instances, createdIds, config, threw, hostVars>>

\* the process handle emits 'error'
onPtyError(id) ==
    /\ id \in Known
    /\ Optional(TRUE)
    /\ LET t == instances[id]
           delivered == ptyErrorListener(t) /\ "error" \in t.listeners
       IN  /\ instances' = IF delivered
                           THEN [instances EXCEPT ![id].errors = @ + 1]
                           ELSE instances
           /\ hostEvents' = IF delivered
                            THEN [hostEvents EXCEPT ![id] = errorHandler(terminals, id, @)]
                            ELSE hostEvents
    /\ UNCHANGED <<terminals, nextTerminalId, pty, immediates, createdIds,
                   config, threw, hostVars>>

\* TerminalInstance.write(data), called by whoever holds the instance
write(id, outcome) ==
    /\ id \in Known
    /\ Optional(TRUE)
    /\ writeIsNoop(instances[id]) => outcome = "ok"
    /\ SetService(writeIn(Service, id, Keystrokes, outcome))
    /\ UNCHANGED hostVars

\* TerminalInstance.resize(cols, rows), called by whoever holds the instance
resize(id, cols, rows, outcome) ==
    /\ id \in Known
    /\ Optional(TRUE)
    /\ writeIsNoop(instances[id]) => outcome = "ok" /\ cols = DefaultCols
    /\ SetService(resizeIn(Service, id, cols, rows, outcome))
    /\ UNCHANGED hostVars

\* the 'pty:write' handler, for any id the renderer may name
ptyWrite(id, outcome) ==
    /\ Optional(reachesInstance(Service, id))
    /\ ~reachesInstance(Service, id) => outcome = "ok"
    /\ SetService(ptyWriteIn(Service, id, Keystrokes, outcome))
    /\ UNCHANGED hostVars

\* the 'pty:resize' handler, for any id the renderer may name
ptyResize(id, cols, rows, outcome) ==
    /\ Optional(reachesInstance(Service, id))
    /\ ~reachesInstance(Service, id) => outcome = "ok" /\ cols = DefaultCols
    /\ SetService(ptyResizeIn(Service, id, cols, rows, outcome))
    /\ UNCHANGED hostVars

\* a queued setImmediate callback runs: dispose() (after an exit), or
\* dispose() unless disposed (after a broken write/resize), which is the same
runImmediate(id, termThrows) ==
    /\ id \in Known
    /\ immediates[id] > 0
    /\ Optional(termThrows)
    /\ termThrows => ~disposeIsNoop(instances[id])
    /\ immediates' = [immediates EXCEPT ![id] = @ - 1]
    /\ instances' = [instances EXCEPT ![id] = disposeInstance(@)]
    /\ pty' = [pty EXCEPT ![id] = disposePty(instances[id], @, termThrows)]
    /\ UNCHANGED <<terminals, nextTerminalId, hostEvents, createdIds, config, threw, hostVars>>

\* the escalation timer armed by dispose() fires: kill('SIGKILL')
killTimeoutFires(id) ==
    /\ id \in Known
    /\ instances[id].timersFired < instances[id].timersArmed
    /\ instances' = [instances EXCEPT ![id].timersFired = @ + 1]
    /\ pty' = [pty EXCEPT ![id].sigkill = @ + 1]
    /\ UNCHANGED <<terminals, nextTerminalId, immediates, hostEvents, createdIds,
                   config, threw, hostVars, budget>>

\* the 'terminal:update-config' handler: updateConfig(updates), which
\* merges and emits 'config-changed', then the reply getConfig() makes
updateConfig(updates) ==
    /\ Optional(TRUE)
    /\ config' = updateConfigIn(config, updates)
    /\ serviceEvents' = Append(serviceEvents, Ev("config-changed", config'))
    /\ reply' = <<[query |-> "config", value |-> config']>>
    /\ UNCHANGED <<terminals, nextTerminalId, instances, pty, immediates, hostEvents,
                   createdIds, threw, restored, host, savedState>>

\* changeAllTerminalsDirectory(targetPath), run when the folder of the
\* window changes; failing: the registered instance whose pty.write does
\* outcome (0: none)
changeAllTerminalsDirectory(targetPath, failing, outcome) ==
    /\ terminals # {}
    /\ IF failing = 0
       THEN outcome = "ok"
       ELSE outcome # "ok" /\ reachesInstance(Service, failing)
    /\ Spend(IF failing = 0 THEN 1 ELSE 2)
    /\ SetService(changeAllTerminalsDirectoryIn(Service, targetPath, failing, outcome))
    /\ UNCHANGED hostVars

\* the instances closeTerminal would dispose with a kill that can throw
Disposable == {id \in terminals : ~disposeIsNoop(instances[id])}

\* 'window-all-closed': what saveTerminalState() writes, which is
\* getTerminalState() of the service as it is before terminalService.dispose()
shutdownSnapshot_afterDispose(s, throwing) == getTerminalState(disposeServiceIn(s, throwing))
shutdownSnapshot(s, throwing) == getTerminalState(s)

\* the 'window-all-closed' handler, once: saveTerminalState(), then
\* terminalService.dispose()
windowAllClosed(throwing) ==
    /\ savedState = <<>>
    /\ throwing \subseteq Disposable
    /\ Spend(Cardinality(throwing))
    /\ savedState' = <<shutdownSnapshot(Service, throwing)>>
    /\ SetService(disposeServiceIn(Service, throwing))
    /\ UNCHANGED <<restored, host, serviceEvents, reply>>

Next ==
    \/ \E pn \in ProfileNames, cwd \in Cwds, ok \in BOOLEAN : terminalCreate(pn, cwd, ok)
    \/ \E id \in Ids, th \in BOOLEAN : closeTerminal(id, th)
    \/ \E id \in Ids : onData(id)
    \/ \E id \in Ids, code \in ExitCodes : onExit(id, code)
    \/ \E id \in Ids : onPtyError(id)
    \/ \E id \in Ids, o \in WriteOutcomes : ptyWrite(id, o)
    \/ \E id \in Ids, c \in ColChoices, r \in RowChoices, o \in WriteOutcomes :
           ptyResize(id, c, r, o)
    \/ \E id \in Ids, th \in BOOLEAN : runImmediate(id, th)
    \/ \E id \in Ids : killTimeoutFires(id)

\* the program: the host's IPC handlers, the events of the process handles,
\* the event loop
Spec == Init /\ [][Next]_vars

\* the same program with callers that kept the TerminalInstance createTerminal
\* returned and call its write and resize directly, whatever became of it
NextApi ==
    \/ Next
    \/ \E id \in Ids, o \in WriteOutcomes : write(id, o)
    \/ \E id \in Ids, c \in ColChoices, r \in RowChoices, o \in WriteOutcomes :
           resize(id, c, r, o)

SpecApi == Init /\ [][NextApi]_vars

\* the service's persistence interface on its own: a snapshot is restored
\* into a service whose terminals were created and closed by direct calls
NextRestore ==
    \/ \E st \in Snapshots(MaxEvents - budget, MaxId + 1 - nextTerminalId) :
           restoreTerminals(st)
    \/ \E pn \in ProfileNames, cwd \in Cwds, c \in ColOptions, r \in RowOptions,
          ok \in BOOLEAN :
           createTerminal(pn, cwd, [cols |-> c, rows |-> r], ok)
    \/ \E id \in Ids, th \in BOOLEAN : closeTerminal(id, th)

SpecRestore == Init /\ [][NextRestore]_vars

\* the same service on any of the machines
InitHost ==
    /\ terminals = {}
    /\ nextTerminalId = 1
    /\ instances = [i \in {} |-> NewInstance]
    /\ pty = [i \in {} |-> NewPty]
    /\ immediates = [i \in {} |-> 0]
    /\ hostEvents = [i \in {} |-> <<>>]
    /\ createdIds = <<>>
    /\ config = DefaultConfig
    /\ threw = {}
    /\ restored = <<>>
    /\ host \in HostEnvs
    /\ serviceEvents = <<>>
    /\ reply = <<>>
    /\ savedState = <<>>
    /\ budget = 0

\* the host's window handlers next to the terminal handlers: terminals are
\* created, written to and closed, their processes fail and exit, and the
\* last window closes
NextHost ==
    \/ \E pn \in ProfileNamesOn(host) : terminalCreate(pn, NULL, TRUE)
    \/ \E id \in Ids : closeTerminal(id, FALSE)
    \/ \E id \in Ids, o \in WriteOutcomes : ptyWrite(id, o)
    \/ \E id \in Ids : runImmediate(id, FALSE)
    \/ \E updates \in ConfigUpdates : updateConfig(updates)
    \/ \E failing \in {0} \cup Ids, o \in WriteOutcomes :
           changeAllTerminalsDirectory(TargetPathOn(host), failing, o)
    \/ \E throwing \in SUBSET Ids : windowAllClosed(throwing)

SpecHost == InitHost /\ [][NextHost]_vars

\* terminals whose processes exit, with the event loop running every queued
\* callback in the end (setImmediate callbacks are not starved)
NextExit ==
    \/ \E pn \in {NULL} : terminalCreate(pn, NULL, TRUE)
    \/ \E id \in Ids : closeTerminal(id, FALSE)
    \/ \E id \in Ids, code \in ExitCodes : onExit(id, code)
    \/ \E id \in Ids, o \in WriteOutcomes : ptyWrite(id, o)
    \/ \E id \in Ids, th \in BOOLEAN : runImmediate(id, th)
    \/ \E id \in Ids : killTimeoutFires(id)

SpecExit ==
    /\ Init
    /\ [][NextExit]_vars
    /\ \A id \in Ids : WF_vars(runImmediate(id, FALSE))

\* the service with two terminals open: createTerminal() was called twice
InitTwoTerminals ==
    /\ host = HostEnv
    /\ LET first == createTerminalIn(NewService, NULL, NULL, NoOptions, TRUE)
           s == createTerminalIn(first, NULL, NULL, NoOptions, TRUE)
       IN  /\ terminals = s.terminals
           /\ nextTerminalId = s.nextTerminalId
           /\ instances = s.instances
           /\ pty = s.pty
           /\ immediates = s.immediates
           /\ hostEvents = s.hostEvents
           /\ createdIds = s.createdIds
           /\ config = s.config
           /\ threw = s.threw
    /\ restored = <<>>
    /\ serviceEvents = <<>>
    /\ reply = <<>>
    /\ savedState = <<>>
    /\ budget = 0

\* two terminals whose processes produce output, in any interleaving, while
\* they are closed, exit and are disposed
NextData ==
    \/ \E id \in Ids : onData(id)
    \/ \E id \in Ids : closeTerminal(id, FALSE)
    \/ \E id \in Ids, code \in ExitCodes : onExit(id, code)
    \/ \E id \in Ids : runImmediate(id, FALSE)

SpecData == InitTwoTerminals /\ [][NextData]_vars

\* the 'get-available-shells' handler: TerminalService.getAvailableShells()
getAvailableShellsHandler ==
    /\ reply' = <<[query |-> "shells", value |-> getAvailableShells(host)]>>
    /\ UNCHANGED <<terminals, nextTerminalId, instances, pty, immediates, hostEvents,
                   createdIds, config, threw, restored, host, serviceEvents,
                   savedState, budget>>

\* createTerminal without a profile name: terminalManager.getDefaultShellProfile()
resolveDefaultProfile ==
    /\ reply' = <<[query |-> "default", value |-> getDefaultShellProfile(host)]>>
    /\ UNCHANGED <<terminals, nextTerminalId, instances, pty, immediates, hostEvents,
                   createdIds, config, threw, restored, host, serviceEvents,
                   savedState, budget>>

\* shell discovery on any machine
InitShells ==
    /\ terminals = {}
    /\ nextTerminalId = 1
    /\ instances = [i \in {} |-> NewInstance]
    /\ pty = [i \in {} |-> NewPty]
    /\ immediates = [i \in {} |-> 0]
    /\ hostEvents = [i \in {} |-> <<>>]
    /\ createdIds = <<>>
    /\ config = DefaultConfig
    /\ threw = {}
    /\ restored = <<>>
    /\ host \in AllEnvs
    /\ serviceEvents = <<>>
    /\ reply = <<>>
    /\ savedState = <<>>
    /\ budget = 0

NextShells ==
    \/ getAvailableShellsHandler
    \/ resolveDefaultProfile

SpecShells == InitShells /\ [][NextShells]_vars


\* the first exit report of a registered instance, with a listener on
\* 'terminal-exit' that calls closeTerminal(id): emit('terminal-exit') runs
\* the listener before exitHandler deletes the id, then the listener of the
\* instance queues dispose()
onExitClosingListener(id, code) ==
    /\ id \in terminals
    /\ pty[id].state = "running"
    /\ onExitListener(instances[id])
    /\ "exit" \in instances[id].listeners
    /\ LET emitted == [Service EXCEPT
                          !.pty[id].state = "exited",
                          !.pty[id].exitReports = @ + 1,
                          !.pty[id].exitCode = <<code>>,
                          !.pty[id].exitSeenActive = TRUE,
                          !.hostEvents[id] = exitHandler(terminals, id, @, code)]
           closed == closeTerminalIn(emitted, id, FALSE).service
       IN  SetService([closed EXCEPT !.terminals = @ \ {id},
                                     !.immediates[id] = @ + 1])
    /\ UNCHANGED <<createdIds, config, threw, hostVars, budget>>

\* the service under a host whose 'terminal-exit' listener closes the terminal
NextListener ==
    \/ \E pn \in {NULL} : terminalCreate(pn, NULL, TRUE)
    \/ \E id \in Ids : closeTerminal(id, FALSE)
    \/ \E id \in Ids, code \in ExitCodes : onExitClosingListener(id, code)
    \/ \E id \in Ids : onData(id)
    \/ \E id \in Ids : runImmediate(id, FALSE)
    \/ \E id \in Ids : killTimeoutFires(id)

SpecListener == Init /\ [][NextListener]_vars

\* createTerminal on any machine, with no profile name, a discovered one or
\* an unknown one, where pty.spawn returns a handle
NextSpawn ==
    \/ \E pn \in ProfileNamesOn(host) : terminalCreate(pn, NULL, TRUE)
    \/ \E id \in Ids : closeTerminal(id, FALSE)

SpecSpawn == InitShells /\ [][NextSpawn]_vars
\* ------------------------------------------------------------------ claims
DataExitError == {"terminal-data", "terminal-exit", "terminal-error"}

\* C1: the ids of the created terminals are strictly increasing in creation
\* order (so pairwise distinct), and every id once assigned stays below the
\* counter, so no later createTerminal assigns it again
C1_IdsStrictlyIncreasing ==
    /\ \A i, j \in 1..Len(createdIds) : i < j => createdIds[i] < createdIds[j]
    /\ \A i \in 1..Len(createdIds) : createdIds[i] < nextTerminalId

\* a second terminal was created after the first one was closed or exited
C1_Witness ==
    /\ Len(createdIds) >= 2
    /\ createdIds[1] \notin terminals
    /\ createdIds[2] \in terminals

\* C2: once closeTerminal(id) has returned true (terminal-closed was emitted),
\* id is not in the registry in any later state and no step emits a
\* terminal-data event for id
C2_ClosedStaysClosed ==
    [][\A id \in DOMAIN hostEvents' :
          CountIn(hostEvents', id, "terminal-closed") > 0 =>
              /\ id \notin terminals'
              /\ Count(id, "terminal-closed") > 0 =>
                    CountIn(hostEvents', id, "terminal-data") = Count(id, "terminal-data")
      ]_vars

\* a process that was never reported exited and never failed produced output
\* after its terminal was closed, and that output was not forwarded
C2_Witness ==
    \E id \in Known :
        /\ Count(id, "terminal-closed") > 0
        /\ Count(id, "terminal-error") = 0
        /\ pty[id].exitReports = 0
        /\ pty[id].produced > Count(id, "terminal-data")

\* C3 (as claimed): when the escalation timer has fired on a process that is
\* still running, exactly one SIGKILL has been sent to it
C3_ExactlyOneForcedKill ==
    \A id \in Known :
        (instances[id].timersFired >= 1 /\ pty[id].state = "running")
            => pty[id].sigkill = 1

\* C4 (as claimed): once the instance has detected the exit of its process,
\* the escalation timer never fires
C4_TimerCancelledOnExit ==
    [][\A id \in Known :
          pty[id].exitSeenActive =>
              instances'[id].timersFired = instances[id].timersFired
      ]_vars

\* C5 (as claimed): no instance in the registry reports isDisposed
C5_RegistryHoldsNoDisposed ==
    \A id \in terminals : ~instances[id].isDisposed

\* C6: SIGTERM is sent and the escalation timer is armed at most once per
\* instance, and a dispose() call (from closeTerminal or from a queued
\* setImmediate) on an instance that is already disposed changes neither the
\* instance nor its process handle and emits no exit or error event
C6_SingleDisposal ==
    [][\A id \in Known :
          /\ pty'[id].sigterm <= 1
          /\ instances'[id].timersArmed <= 1
          /\ ( /\ instances[id].isDisposed
               /\ \/ immediates'[id] < immediates[id]
                  \/ CountIn(hostEvents', id, "terminal-closed") > Count(id, "terminal-closed") )
             => /\ instances'[id] = instances[id]
                /\ pty'[id] = pty[id]
                /\ \A ty \in {"terminal-exit", "terminal-error"} :
                       CountIn(hostEvents', id, ty) = Count(id, ty)
      ]_vars

\* two auto-disposes were queued by two exit reports and both have run
C6_Witness ==
    \E id \in Known :
        /\ pty[id].exitReports = 2
        /\ immediates[id] = 0
        /\ instances[id].isDisposed
        /\ pty[id].sigterm = 1

\* C7: at most one terminal-exit event is emitted for an id
C7_AtMostOneExit ==
    \A id \in Known : Count(id, "terminal-exit") <= 1

\* the process handle reported the exit twice to an attached listener
C7_Witness ==
    \E id \in Known : pty[id].exitReports >= 2 /\ Count(id, "terminal-exit") = 1

\* C8 (as claimed): every terminal whose process has exited has had a
\* terminal-exit event
C8_ExitAlwaysReported ==
    \A id \in Known : pty[id].state = "exited" => Count(id, "terminal-exit") >= 1

\* C8 (amended): a terminal-exit event is emitted, once, exactly for the
\* terminals whose process exit was reported before disposal began; a process
\* that exits after closeTerminal/dispose gets none
C8_ExitReportedIffExitedActive ==
    \A id \in Known :
        Count(id, "terminal-exit") =
            IF pty[id].state = "exited" /\ pty[id].exitSeenActive THEN 1 ELSE 0

\* one process exited on its own, another exited after its terminal was closed
C8_Witness ==
    \E a, b \in Known :
        /\ pty[a].state = "exited" /\ pty[a].exitSeenActive
        /\ Count(a, "terminal-exit") = 1
        /\ pty[b].state = "exited" /\ ~pty[b].exitSeenActive
        /\ Count(b, "terminal-closed") = 1

\* C9: dispose leaves the service's forwarders detached, and from the state in
\* which disposal has begun no step emits a terminal-data, terminal-exit or
\* terminal-error event for that id
C9_NoEventAfterDisposalBegins ==
    [][\A id \in Known :
          /\ instances'[id].isDisposed =>
                ~instances'[id].handlers /\ instances'[id].listeners = {}
          /\ instances[id].isDisposed =>
                \A ty \in DataExitError : CountIn(hostEvents', id, ty) = Count(id, ty)
      ]_vars

\* a disposed instance whose process produced output and exited after disposal
C9_Witness ==
    \E id \in Known :
        /\ instances[id].isDisposed
        /\ pty[id].state = "exited" /\ ~pty[id].exitSeenActive
        /\ pty[id].produced > Count(id, "terminal-data")

\* C10 (as claimed): the host has seen exactly one closing notification
\* (terminal-closed or terminal-exit) for every disposed instance
C10_OneDisposalNotification ==
    \A id \in Known :
        instances[id].isDisposed =>
            Count(id, "terminal-closed") + Count(id, "terminal-exit") = 1
\* C11: write and resize on an instance whose disposal has begun send
\* nothing to the process (no write reaches it, no call on it fails, its size
\* stays), emit no error, data or exit notification, throw nothing and keep
\* the stored cols/rows; and a write or resize call that returned at its guard
\* was made on a disposed instance and left the instance, every process, the
\* registry, the queued callbacks and the service's events as they were
C11_DisposedWriteResizeIsNoop ==
    [][\A id \in Known :
          /\ instances[id].isDisposed =>
                /\ pty'[id].written = pty[id].written
                /\ pty'[id].failed = pty[id].failed
                /\ pty'[id].cols = pty[id].cols
                /\ pty'[id].rows = pty[id].rows
                /\ instances'[id].cols = instances[id].cols
                /\ instances'[id].rows = instances[id].rows
                /\ instances'[id].errors = instances[id].errors
                /\ \A ty \in DataExitError : CountIn(hostEvents', id, ty) = Count(id, ty)
                /\ "write" \notin threw'
                /\ "resize" \notin threw'
          /\ instances'[id].returnedEarly > instances[id].returnedEarly =>
                /\ instances[id].isDisposed
                /\ instances' = [instances EXCEPT
                                    ![id].returnedEarly = instances'[id].returnedEarly]
                /\ pty' = pty
                /\ terminals' = terminals
                /\ immediates' = immediates
                /\ hostEvents' = hostEvents
                /\ threw' = threw
      ]_vars

\* write or resize was called on the instance of a closed terminal
C11_Witness ==
    \E id \in Known :
        /\ instances[id].isDisposed
        /\ instances[id].returnedEarly >= 1
        /\ Count(id, "terminal-closed") = 1

\* C12 (as claimed): whenever a step changes the stored cols/rows of an
\* instance, the process has that size after the step
C12_DimsChangeOnlyWhenApplied ==
    [][\A id \in Known :
          (instances'[id].cols # instances[id].cols \/ instances'[id].rows # instances[id].rows)
              => /\ pty'[id].cols = instances'[id].cols
                 /\ pty'[id].rows = instances'[id].rows
      ]_vars

\* C13: a step in which a write or resize on the handle of instance id fails
\* with a broken channel queues exactly one self-dispose for id, leaves id
\* undisposed, emits one terminal-error for id, and changes nothing of any
\* other instance (its fields, its forwarders, its process, its events, its
\* queued callbacks, its registry entry); the step that runs a queued
\* self-dispose leaves id disposed and every other instance as it was
C13_BrokenChannelIsolated ==
    [][\A id \in Known :
          LET othersUnchanged ==
                  \A o \in Known \ {id} :
                      /\ instances'[o] = instances[o]
                      /\ pty'[o] = pty[o]
                      /\ hostEvents'[o] = hostEvents[o]
                      /\ immediates'[o] = immediates[o]
                      /\ (o \in terminals') = (o \in terminals)
          IN  /\ pty'[id].broken > pty[id].broken =>
                    /\ immediates'[id] = immediates[id] + 1
                    /\ ~instances'[id].isDisposed
                    /\ CountIn(hostEvents', id, "terminal-error")
                           = Count(id, "terminal-error") + 1
                    /\ othersUnchanged
              /\ immediates'[id] < immediates[id] =>
                    /\ instances'[id].isDisposed
                    /\ othersUnchanged
      ]_vars

\* one terminal was disposed by the self-dispose its broken channel queued,
\* next to another terminal that is still registered and active
C13_Witness ==
    \E a, b \in Known :
        /\ a # b
        /\ pty[a].broken >= 1
        /\ immediates[a] = 0
        /\ instances[a].isDisposed
        /\ Count(a, "terminal-error") = 1
        /\ b \in terminals
        /\ ~instances[b].isDisposed

\* C14: write and resize never throw, and every step in which a write or
\* resize on the handle of an instance fails emits one 'error' event of that
\* instance to a listener
C14_FailuresSurfacedNotThrown ==
    [][/\ "write" \notin threw'
       /\ "resize" \notin threw'
       /\ \A id \in Known :
             pty'[id].failed > pty[id].failed =>
                 instances'[id].errors = instances[id].errors + 1
      ]_vars

\* a call on the instance of an exited, no longer registered terminal failed
\* before the instance was disposed: the instance emitted 'error', the
\* service forwarded nothing
C14_Witness ==
    \E id \in Known :
        /\ id \notin terminals
        /\ pty[id].state = "exited"
        /\ pty[id].failed >= 1
        /\ instances[id].errors >= 1
        /\ Count(id, "terminal-error") = 0

\* C15: a createTerminal call whose spawn fails (the counter moved, no
\* terminal was returned) throws to its caller and leaves the registry, the
\* instances and the service's events as they were
C15_FailedSpawnRegistersNothing ==
    [][(nextTerminalId' > nextTerminalId /\ createdIds' = createdIds) =>
          /\ "createTerminal" \in threw'
          /\ terminals' = terminals
          /\ instances' = instances
          /\ hostEvents' = hostEvents
      ]_vars

\* a spawn failed while a terminal was registered
C15_Witness ==
    /\ "createTerminal" \in threw
    /\ terminals # {}
    /\ nextTerminalId - 1 > Len(createdIds)

\* the entries of a snapshot that are of one kind
RECURSIVE CountKind(_, _)
CountKind(entries, kind) ==
    IF entries = <<>> THEN 0
    ELSE (IF Head(entries).kind = kind THEN 1 ELSE 0) + CountKind(Tail(entries), kind)

DiscoveredNames ==
    {getAvailableShells(HostEnv)[i].name : i \in 1..Len(getAvailableShells(HostEnv))}

\* C17 (as claimed): after restoring a snapshot of valid descriptors (each
\* spawnable, with the name of a discovered profile) into a service with no
\* terminals, getTerminalState lists, in the same order, descriptors with the
\* same profile name, cwd, cols and rows
C17_RestoreGetStateRoundTrip ==
    [][( /\ restored' # restored
         /\ terminals = {}
         /\ restored'[1].usable
         /\ \A i \in 1..Len(restored'[1].terminals) :
               /\ restored'[1].terminals[i].kind = "ok"
               /\ restored'[1].terminals[i].shellProfile \in DiscoveredNames )
       => LET S == restored'[1].terminals
              G == getTerminalState(Service').terminals
          IN  /\ Len(G) = Len(S)
              /\ \A i \in 1..Len(S) :
                    /\ G[i].shellProfile = S[i].shellProfile
                    /\ G[i].cwd = S[i].cwd
                    /\ G[i].cols = S[i].cols
                    /\ G[i].rows = S[i].rows
      ]_vars

\* C18 (as claimed): every descriptor getTerminalState returns has the
\* fields shellProfile, cwd, cols and rows and no other
C18_DescriptorHasNoId ==
    \A i \in 1..Len(getTerminalState(Service).terminals) :
        DOMAIN getTerminalState(Service).terminals[i] = {"shellProfile", "cwd", "cols", "rows"}

\* C19 (as claimed): in the step that creates it, an instance stores the
\* cols/rows its process was spawned with (the requested ones, or 80x30)
C19_StoredDimsAreSpawnDims ==
    [][\A id \in Known' \ Known :
          /\ instances'[id].cols = pty'[id].cols
          /\ instances'[id].rows = pty'[id].rows
      ]_vars

\* C20 (as claimed): a terminal created with a profile name that matches no
\* discovered profile runs the default shell and records the default
\* profile, in its shellName and in its persisted profile name
C20_UnknownProfileFallsBackToDefault ==
    \A id \in Known :
        (pty[id].profileArg # NULL /\ pty[id].profileArg \notin DiscoveredNames) =>
            /\ pty[id].shell = getDefaultShell(HostEnv)
            /\ instances[id].shellProfile = getDefaultShellProfile(HostEnv)
            /\ shellName(instances[id]) = getDefaultShellProfile(HostEnv).displayName
            /\ getState(id, instances[id]).shellProfile = getDefaultShellProfile(HostEnv).name

\* C21: in every reachable state and for every id the host may name,
\* closeTerminal(id) returns true exactly when id is in the registry; then,
\* when the call returns, id is out of the registry and its instance is
\* disposed while its process is in the state it was in (not waited for);
\* for an id not in the registry it returns false and leaves the service,
\* its instances, their processes and the events emitted as they were
C21_CloseReturnsFound ==
    \A id \in Ids, termThrows \in BOOLEAN :
        LET r == closeTerminalIn(Service, id, termThrows)
        IN  /\ r.result = (id \in terminals)
            /\ r.result =>
                  /\ id \notin r.service.terminals
                  /\ r.service.instances[id].isDisposed
                  /\ r.service.pty[id].state = pty[id].state
            /\ ~r.result => r.service = Service

\* closeTerminal has closed a terminal whose process is still running, and
\* another terminal left the registry by exiting
C21_Witness ==
    \E a, b \in Known :
        /\ Count(a, "terminal-closed") = 1
        /\ a \notin terminals
        /\ instances[a].isDisposed
        /\ pty[a].state = "running"
        /\ Count(b, "terminal-exit") = 1
        /\ b \notin terminals

\* the ids of terminals that were closed or whose process has exited
StaleIds ==
    {id \in Known : Count(id, "terminal-closed") >= 1 \/ pty[id].state = "exited"}

\* C22: in every reachable state, for every stale id: the id was handed out
\* before and the next creation does not bring it back into the registry; a
\* 'pty:write' or 'pty:resize' naming it changes nothing at all; and a
\* closeTerminal naming it leaves every other registered terminal (its
\* registration, its instance, its process, its events, its queued
\* callbacks) as it was
C22_StaleIdRecognised ==
    \A id \in StaleIds :
        LET created == createTerminalIn(Service, NULL, NULL, NoOptions, TRUE)
            closed == closeTerminalIn(Service, id, FALSE).service
        IN  /\ id < nextTerminalId
            /\ id \notin terminals => id \notin created.terminals
            /\ created.instances[id] = instances[id]
            /\ \A o \in WriteOutcomes : ptyWriteIn(Service, id, Keystrokes, o) = Service
            /\ \A o \in WriteOutcomes, c \in ColChoices, r \in RowChoices :
                  ptyResizeIn(Service, id, c, r, o) = Service
            /\ \A other \in terminals \ {id} :
                  /\ other \in closed.terminals
                  /\ closed.instances[other] = instances[other]
                  /\ closed.pty[other] = pty[other]
                  /\ closed.hostEvents[other] = hostEvents[other]
                  /\ closed.immediates[other] = immediates[other]

\* a terminal was created after another one was closed or exited, is
\* registered and has taken input
C22_Witness ==
    \E a \in StaleIds, b \in terminals :
        /\ a < b
        /\ a \notin terminals
        /\ ~instances[b].isDisposed
        /\ pty[b].written >= 1

\* C23: in every reachable state, whichever of the registered instances
\* fail to be killed, closeAllTerminals returns with an empty registry and
\* with every instance that was registered disposed
C23_CloseAllEmptiesRegistry ==
    \A throwing \in SUBSET Disposable :
        LET closed == closeAllTerminalsIn(Service, throwing)
        IN  /\ closed.terminals = {}
            /\ \A id \in terminals :
                  /\ closed.instances[id].isDisposed
                  /\ Len(closed.hostEvents[id]) = Len(hostEvents[id]) + 1

\* the last window closed with two terminals registered, the kill of the
\* first of them threw, and both are closed
C23_Witness ==
    /\ savedState # <<>>
    /\ Len(savedState[1].terminals) = 2
    /\ terminals = {}
    /\ pty[savedState[1].terminals[1].id].sigkill = 1
    /\ instances[savedState[1].terminals[1].id].timersFired = 0
    /\ \A id \in Known : instances[id].isDisposed /\ Count(id, "terminal-closed") = 1

C25_DataInOrderPerTerminal ==
    [][\A id \in Known :
          /\ pty'[id].produced > pty[id].produced =>
                /\ pty'[id].produced = pty[id].produced + 1
                /\ hostEvents'[id] =
                      IF id \in terminals /\ ~instances[id].isDisposed
                      THEN Append(hostEvents[id],
                                  Ev("terminal-data", <<id, pty'[id].produced>>))
                      ELSE hostEvents[id]
                /\ \A other \in Known \ {id} : hostEvents'[other] = hostEvents[other]
          /\ pty'[id].produced = pty[id].produced =>
                CountIn(hostEvents', id, "terminal-data") = Count(id, "terminal-data")
      ]_vars

\* the output of two terminals was interleaved: the host received the first
\* and the second chunk of one terminal in this order, and a chunk of the
\* other terminal
C25_Witness ==
    \E a, b \in Known :
        /\ a # b
        /\ hostEvents[a] = <<hostEvents[a][1],
                             Ev("terminal-data", <<a, 1>>),
                             Ev("terminal-data", <<a, 2>>)>>
        /\ hostEvents[b] = <<hostEvents[b][1], Ev("terminal-data", <<b, 1>>)>>

\* C26: a step that emits a service event is an updateConfig: for every
\* patch, updateConfig(patch) gives a configuration with the keys of the old
\* one and of the patch, the patch's value where the patch has the key and
\* the old value elsewhere; the step installs such a configuration; the one
\* event added is config-changed with the new configuration; and the
\* registry, every instance, every process, the queued callbacks and the
\* events of the terminals are unchanged
C26_UpdateConfigMergesOnly ==
    [][Len(serviceEvents') > Len(serviceEvents) =>
          /\ \A patch \in ConfigUpdates :
                LET merged == updateConfigIn(config, patch)
                IN  /\ DOMAIN merged = (DOMAIN config) \cup (DOMAIN patch)
                    /\ \A k \in DOMAIN patch : merged[k] = patch[k]
                    /\ \A k \in (DOMAIN config) \ (DOMAIN patch) : merged[k] = config[k]
          /\ \E patch \in ConfigUpdates : config' = updateConfigIn(config, patch)
          /\ serviceEvents' = Append(serviceEvents, Ev("config-changed", config'))
          /\ terminals' = terminals
          /\ instances' = instances
          /\ pty' = pty
          /\ immediates' = immediates
          /\ hostEvents' = hostEvents
      ]_vars

\* the configuration was given cols = 120 and a new font size while a
\* terminal was running, which still has its 80 columns
C26_Witness ==
    /\ Len(serviceEvents) = 2
    /\ "cols" \in DOMAIN config
    /\ config.cols = 120
    /\ config.fontSize = 16
    /\ config.scrollback = DefaultConfig.scrollback
    /\ \E id \in terminals :
          /\ ~instances[id].isDisposed
          /\ instances[id].cols = DefaultCols
          /\ pty[id].cols = DefaultCols

\* the shell family of an executable
runningFamily(shell) ==
    CASE shell = CmdPath -> "cmd"
      [] shell = PowerShellPath -> "powershell"
      [] OTHER -> "unix"

\* the change-directory line of the shell family of an executable: cd /d
\* for cmd, cd with the native path for PowerShell, cd with forward slashes
\* for the Unix-like shells on Windows, cd with the path elsewhere
familyLine(platform, shell, targetPath) ==
    IF platform # "win32" THEN Line("cd", targetPath)
    ELSE CASE runningFamily(shell) = "cmd" -> Line("cd /d", targetPath)
           [] runningFamily(shell) = "powershell" -> Line("cd", targetPath)
           [] OTHER -> Line("cd", toForwardSlashes(targetPath))

\* C27 (as claimed): a step in which a terminal is sent a change-directory
\* line makes exactly one write on the process of every registered, not
\* disposed terminal and none on any other, and each line that arrives is
\* the line of the family of the shell running in that terminal
C27_DirectorySyncPerShellFamily ==
    [][(\E id \in Known :
           /\ Len(pty'[id].input) > Len(pty[id].input)
           /\ pty'[id].input[Len(pty'[id].input)] # Keystrokes)
       => \A id \in Known :
             IF id \in terminals /\ ~instances[id].isDisposed
             THEN /\ pty'[id].written + pty'[id].failed
                        = pty[id].written + pty[id].failed + 1
                  /\ pty'[id].written > pty[id].written =>
                        pty'[id].input =
                            Append(pty[id].input,
                                   familyLine(host.platform, pty[id].shell,
                                              TargetPathOn(host)))
             ELSE /\ pty'[id].input = pty[id].input
                  /\ pty'[id].written = pty[id].written
                  /\ pty'[id].failed = pty[id].failed
      ]_vars

\* C28 (as claimed): the default profile resolved on a machine is the first
\* entry of getAvailableShells() when that list is not empty, and the
\* generic fallback descriptor when it is empty
C28_DefaultIsFirstAvailable ==
    (reply # <<>> /\ reply[1].query = "default") =>
        LET shells == getAvailableShells(host)
        IN  /\ reply[1].value # NoProfile
            /\ reply[1].value =
                  IF shells # <<>>
                  THEN Head(shells)
                  ELSE Profile("shell", "Shell", getDefaultShell(host))

\* a candidate shell of a platform: its profile name and the paths probed
\* for it, in the order they are probed
Candidate(name, displayName, paths) ==
    [name |-> name, displayName |-> displayName, paths |-> paths]

\* the candidates of each platform in its precedence order; on Linux the
\* shell $SHELL names is the last candidate unless it is one of the first
\* three
PlatformCandidates(env) ==
    CASE env.platform = "win32" ->
           <<Candidate("cmd", "Command Prompt", <<CmdPath>>),
             Candidate("powershell", "PowerShell",
                       <<"C:\\Program Files\\PowerShell\\7\\pwsh.exe",
                         "C:\\Program Files\\PowerShell\\7.0\\pwsh.exe",
                         "C:\\Program Files (x86)\\PowerShell\\7\\pwsh.exe",
                         "C:\\Program Files (x86)\\PowerShell\\7.0\\pwsh.exe">>),
             Candidate("powershell-legacy", "PowerShell (Legacy)", <<PowerShellPath>>),
             Candidate("wsl", "WSL", <<WslPath>>),
             Candidate("git-bash", "Git Bash",
                       <<"C:\\Program Files\\Git\\bin\\bash.exe",
                         "C:\\Program Files (x86)\\Git\\bin\\bash.exe">>)>>
      [] env.platform = "darwin" ->
           <<Candidate("zsh", "Zsh", <<"/bin/zsh">>),
             Candidate("bash", "Bash", <<"/bin/bash">>)>>
      [] env.platform = "linux" ->
           <<Candidate("bash", "Bash", <<"/bin/bash">>),
             Candidate("zsh", "Zsh", <<"/bin/zsh">>),
             Candidate("sh", "Sh", <<"/bin/sh">>)>>
           \o (IF env.SHELL \in {NULL, "/bin/bash", "/bin/zsh", "/bin/sh"}
               THEN <<>>
               ELSE <<Candidate(basename(env.SHELL), capitalize(basename(env.SHELL)),
                                <<env.SHELL>>)>>)
      [] OTHER -> <<>>

\* the candidates with a path that is present, each with the first such path
PresentCandidates(env) ==
    LET present == SelectSeq(PlatformCandidates(env),
                             LAMBDA c : \E i \in 1..Len(c.paths) : c.paths[i] \in env.exists)
    IN  [i \in 1..Len(present) |->
            Profile(present[i].name, present[i].displayName,
                    Head(SelectSeq(present[i].paths, LAMBDA p : p \in env.exists)))]

\* C29: on every machine, the list getAvailableShells returns is the
\* platform's candidates whose executable is present, in precedence order
\* (the empty list when none is present)
C29_AvailableAreThePresentCandidates ==
    (reply # <<>> /\ reply[1].query = "shells") =>
        reply[1].value = PresentCandidates(host)

\* discovery ran on a Windows machine where cmd.exe and wsl.exe are there
\* and no PowerShell is: the list is cmd, wsl
C29_Witness ==
    /\ reply # <<>>
    /\ reply[1].query = "shells"
    /\ host.platform = "win32"
    /\ host.exists = {CmdPath, WslPath}
    /\ Len(reply[1].value) = 2
    /\ reply[1].value[1].name = "cmd"
    /\ reply[1].value[2].name = "wsl"

\* C30 (as claimed): an instance without process handle has released its
\* subscriptions on it, and an instance whose disposal has completed, the
\* escalation timer included, holds no process handle
C30_HandleClearedAfterDisposal ==
    \A id \in Known :
        /\ ~instances[id].hasPty => instances[id].disposables = {}
        /\ (instances[id].isDisposed
            /\ instances[id].timersFired = instances[id].timersArmed)
               => ~instances[id].hasPty

\* C31 (as claimed): the names of the profiles one getAvailableShells()
\* call returns are pairwise distinct
C31_ProfileNamesDistinct ==
    (reply # <<>> /\ reply[1].query = "shells") =>
        \A i, j \in 1..Len(reply[1].value) :
            reply[1].value[i].name = reply[1].value[j].name => i = j

\* C32 (as claimed): a process whose instance was disposed gets at most one
\* SIGKILL, also when kill('SIGTERM') threw and dispose() sent SIGKILL at once
C32_AtMostOneForcedKill ==
    \A id \in Known :
        instances[id].isDisposed => pty[id].sigkill <= 1

\* C33 (as claimed): for every id that was registered and has left the
\* registry, exactly one of terminal-exit and terminal-closed was emitted
C33_ExactlyOneOfExitAndClosed ==
    \A id \in Known \ terminals :
        Count(id, "terminal-created") = 1 =>
            Count(id, "terminal-exit") + Count(id, "terminal-closed") = 1

\* C34: from a state in which terminal-exit has been emitted for an id, no
\* step emits a terminal-data or a terminal-error event for that id, whether
\* or not the queued dispose() of the instance has run
C34_NoDataOrErrorAfterExit ==
    [][\A id \in Known :
          Count(id, "terminal-exit") >= 1 =>
              \A ty \in {"terminal-data", "terminal-error"} :
                  CountIn(hostEvents', id, ty) = Count(id, ty)
      ]_vars

\* the exit was announced, dispose() is still queued and the instance is not
\* disposed, and a chunk the process delivered in between was not forwarded
C34_Witness ==
    \E id \in Known :
        /\ Count(id, "terminal-exit") = 1
        /\ immediates[id] > 0
        /\ ~instances[id].isDisposed
        /\ pty[id].produced > Count(id, "terminal-data")

\* C35: for every terminal id, terminal-created was emitted exactly once and
\* is the first event of that id (before every terminal-data, terminal-exit,
\* terminal-error and terminal-closed), and the step that emits it leaves the
\* id in the registry
C35_CreatedOnceAndFirst ==
    /\ [](\A id \in DOMAIN hostEvents :
             /\ Count(id, "terminal-created") = 1
             /\ Head(hostEvents[id]).type = "terminal-created")
    /\ [][\A id \in DOMAIN hostEvents' :
             CountIn(hostEvents', id, "terminal-created") > Count(id, "terminal-created")
                 => id \in terminals' /\ id \notin terminals
      ]_vars

\* a terminal whose events were: created, then output, then its exit
C35_Witness ==
    \E id \in Known :
        /\ Len(hostEvents[id]) >= 3
        /\ hostEvents[id][1].type = "terminal-created"
        /\ hostEvents[id][2].type = "terminal-data"
        /\ Count(id, "terminal-exit") = 1

\* C36 (as claimed): the profile recorded on an instance created without a
\* profile name, or with the name of a discovered profile, has the
\* executable that was handed to pty.spawn for its process
C36_ProfileNamesSpawnedExecutable ==
    \A id \in Known :
        (pty[id].profileArg = NULL \/ pty[id].profileArg \in ProfileNamesOn(host) \ {"nosuch"})
            => /\ instances[id].shellProfile # NoProfile
               /\ instances[id].shellProfile.shell = pty[id].shell

\* C37: dispose() never throws, whichever of its calls fail (removing the
\* forwarders, kill('SIGTERM'), kill('SIGKILL'), disposing a subscription,
\* removeAllListeners of the handle), and it leaves the instance disposed with
\* no subscription and no listener; so every disposed instance is in that state
C37_DisposeNeverThrows ==
    \A id \in Known :
        /\ \A failing \in SUBSET DisposeFailures :
              LET r == disposeWith(instances[id], failing)
              IN  /\ ~r.threw
                  /\ r.instance.isDisposed
                  /\ r.instance.disposables = {}
                  /\ r.instance.listeners = {}
        /\ instances[id].isDisposed =>
              instances[id].disposables = {} /\ instances[id].listeners = {}

\* closeTerminal disposed an instance whose kill('SIGTERM') threw: SIGKILL was
\* sent by dispose() itself, and the instance is disposed and bare
C37_Witness ==
    \E id \in Known :
        /\ instances[id].isDisposed
        /\ pty[id].sigkill > instances[id].timersFired
        /\ Count(id, "terminal-closed") = 1
        /\ instances[id].disposables = {} /\ instances[id].listeners = {}

\* C38: the step in which the last window closes writes a snapshot with
\* exactly one descriptor for each terminal registered before the step, in
\* registration order and as getState() gives it then, and leaves the
\* registry empty
C38_SnapshotBeforeClose ==
    [][savedState' # savedState =>
          LET saved == savedState'[1].terminals
              order == registryOrder(Service)
          IN  /\ Len(saved) = Cardinality(terminals)
              /\ Len(order) = Len(saved)
              /\ \A i \in 1..Len(saved) :
                    /\ order[i] \in terminals
                    /\ saved[i] = getState(order[i], instances[order[i]])
              /\ \A i, j \in 1..Len(saved) : saved[i].id = saved[j].id => i = j
              /\ savedState'[1].config = config
              /\ terminals' = {}
      ]_vars

\* the last window closed with two terminals of different profiles
\* registered: both are in the snapshot and the registry is empty
C38_Witness ==
    /\ savedState # <<>>
    /\ Len(savedState[1].terminals) = 2
    /\ savedState[1].terminals[1].shellProfile # savedState[1].terminals[2].shellProfile
    /\ terminals = {}
    /\ \A i \in 1..2 : Count(savedState[1].terminals[i].id, "terminal-closed") = 1

====
